---- MODULE Spec2Model ----
(***************************************************************************)
(* LectureSplit (src/lecture_split/main.py): the batch loop of main(),     *)
(* detect_scenes() and extract_split_audio(), as one sequential state      *)
(* machine.  The scenedetect library (VideoManager, SceneManager,          *)
(* ContentDetector, FrameTimecode) and ffmpeg are the environment: what    *)
(* they return (a scene list, an exit code, an exception) is chosen        *)
(* nondeterministically; what main.py does with it is the model.           *)
(***************************************************************************)
EXTENDS Integers, Sequences, FiniteSets, TLC

VARIABLES
    pc,               \* position in main.py ("M143" = main, line 143, ...)
    caller,           \* who entered: "none" | "main" | "api" (a direct call)
    exc,              \* the last exception raised ("none" when none)
    ffmpeg_available, \* video_splitter.is_ffmpeg_available()
    video_pths,       \* main: list(Path(args.input_dir).glob("*"))
    vidx,             \* main: 0-based position of the for loop in video_pths
    video_pth,        \* the video_pth argument of the running function
    opened,           \* videos opened by VideoManager(...), in order
    released,         \* videos released by video_manager.release(), in order
    detected_scenes,  \* main: the value detect_scenes returned
    scene_list,       \* the scene_list local / argument
    suppress_output,  \* extract_split_audio's argument
    i,                \* extract_split_audio: the enumerate() index (0-based)
    calls,            \* the call_lists handed to subprocess.call, in order
    ret_vals,         \* the ret_val of every completed subprocess.call
    running,          \* the ffmpeg child processes not yet waited for
    dirs,             \* the output directories that exist
    files,            \* the output files: path -> content (NoFile if absent)
    files0            \* files as they were when extract_split_audio was entered

vars == <<pc, caller, exc, ffmpeg_available, video_pths, vidx, video_pth,
          opened, released, detected_scenes, scene_list, suppress_output,
          i, calls, ret_vals, running, dirs, files, files0>>

----------------------------------------------------------------------------
(* Bounds *)

MaxFrame == 2
MaxVideos == 2

Stems == 1..MaxVideos
Frames == 0..MaxFrame
MaxScenes == MaxFrame

(* A scene is (start, end) with start < end; a scene list is time-ordered. *)
Scenes == {sc \in Frames \X Frames : sc[1] < sc[2]}

SceneLists ==
    {sl \in UNION {[1..n -> Scenes] : n \in 0..MaxScenes} :
        \A k \in 1..(Len(sl) - 1) : sl[k][2] <= sl[k + 1][1]}

ExitCodes == {0, 1}

NoFile == <<"absent">>
Partial == <<"partial">>

DetectPcs == {"D54", "D55", "D62", "D65", "D77"}
ExtractPcs == {"E90", "E93", "E96", "E110"}
DetectErrors == {"open_failed", "setup_failed", "decode_failed"}

----------------------------------------------------------------------------
(* Helpers of extract_split_audio *)

\* FrameTimecode.get_timecode(): the library's HH:MM:SS.mmm rendering, kept
\* symbolic (the frame number it renders).
GetTimecode(frames) == <<"timecode", frames>>

\* line 98: duration = (end_time - start_time)
Duration(start_time, end_time) == end_time - start_time

\* line 93 and 109: audio_output_dir.joinpath(video_pth.stem + f'_{i + 1}.mp3')
OutPath(stem, n) == <<stem, stem, n>>

Paths == {OutPath(s, n) : s \in Stems, n \in 1..MaxScenes}

\* lines 100-106: the verbosity flags of the call
Verbosity(so, idx) ==
    IF so THEN "quiet" ELSE IF idx > 0 THEN "error" ELSE "default"

CallListZeroBased(idx, so, sl, stem) ==
    [v |-> Verbosity(so, idx),
     ss |-> GetTimecode(sl[idx + 1][1]),
     input |-> stem,
     t |-> GetTimecode(Duration(sl[idx + 1][1], sl[idx + 1][2])),
     out |-> OutPath(stem, idx)]

\* lines 99-109: the ffmpeg command line of scene idx (0-based)
CallList(idx, so, sl, stem) ==
    [v |-> Verbosity(so, idx),
     ss |-> GetTimecode(sl[idx + 1][1]),
     input |-> stem,
     t |-> GetTimecode(Duration(sl[idx + 1][1], sl[idx + 1][2])),
     out |-> OutPath(stem, idx + 1)]

\* What a successful ffmpeg run of call_list c leaves at c.out.
Slice(c) == <<"audio", c.ss, c.t>>

----------------------------------------------------------------------------
Init ==
    /\ pc = "start"
    /\ caller = "none"
    /\ exc = "none"
    /\ ffmpeg_available \in BOOLEAN
    /\ video_pths = <<>>
    /\ vidx = 0
    /\ video_pth = 1
    /\ opened = <<>>
    /\ released = <<>>
    /\ detected_scenes = <<>>
    /\ scene_list = <<>>
    /\ suppress_output = TRUE
    /\ i = 0
    /\ calls = <<>>
    /\ ret_vals = <<>>
    /\ running = {}
    /\ dirs = {}
    /\ files = [p \in Paths |-> NoFile]
    /\ files0 = [p \in Paths |-> NoFile]

----------------------------------------------------------------------------
(* main *)

\* line 141: the entries of input_dir
Main141 ==
    /\ pc = "start"
    /\ caller = "none"
    /\ \E n \in 0..MaxVideos : video_pths' = [k \in 1..n |-> k]
    /\ caller' = "main"
    /\ vidx' = 0
    /\ pc' = "M143"
    /\ UNCHANGED <<exc, ffmpeg_available, video_pth, opened, released,
                   detected_scenes, scene_list, suppress_output, i, calls,
                   ret_vals, running, dirs, files, files0>>

\* lines 143-150: the next entry, and the call of detect_scenes; or the loop ends
Main143 ==
    /\ pc = "M143"
    /\ IF vidx < Len(video_pths)
       THEN /\ video_pth' = video_pths[vidx + 1]
            /\ pc' = "D54"
       ELSE /\ pc' = "M155"
            /\ UNCHANGED video_pth
    /\ UNCHANGED <<caller, exc, ffmpeg_available, video_pths, vidx, opened,
                   released, detected_scenes, scene_list, suppress_output, i,
                   calls, ret_vals, running, dirs, files, files0>>

\* lines 151-152: extract_split_audio(..., scene_list=detected_scenes, suppress_output=True)
Main151 ==
    /\ pc = "M151"
    /\ scene_list' = detected_scenes
    /\ suppress_output' = TRUE
    /\ i' = 0
    /\ calls' = <<>>
    /\ ret_vals' = <<>>
    /\ files0' = files
    /\ pc' = "E90"
    /\ UNCHANGED <<caller, exc, ffmpeg_available, video_pths, vidx, video_pth,
                   opened, released, detected_scenes, running, dirs, files>>

\* line 155: "All processing complete"
Main155 ==
    /\ pc = "M155"
    /\ pc' = "done"
    /\ UNCHANGED <<caller, exc, ffmpeg_available, video_pths, vidx, video_pth,
                   opened, released, detected_scenes, scene_list,
                   suppress_output, i, calls, ret_vals, running, dirs, files,
                   files0>>

MainDetectRaisedCaught ==
    /\ pc' = "M143"
    /\ vidx' = vidx + 1

\* lines 143-153: no try/except around detect_scenes: its exception leaves main
MainDetectRaised ==
    /\ pc' = "raised"
    /\ vidx' = vidx

----------------------------------------------------------------------------
(* detect_scenes *)

\* line 54: VideoManager([str(video_pth)]) opens the video, or raises
D54 ==
    /\ pc = "D54"
    /\ \/ /\ opened' = Append(opened, video_pth)
          /\ pc' = "D55"
          /\ UNCHANGED <<exc, vidx>>
       \/ /\ exc' = "open_failed"
          /\ MainDetectRaised
          /\ UNCHANGED opened
    /\ UNCHANGED <<caller, ffmpeg_available, video_pths, video_pth, released,
                   detected_scenes, scene_list, suppress_output, i, calls,
                   ret_vals, running, dirs, files, files0>>

\* lines 55-59: SceneManager(), add_detector(ContentDetector(...)),
\* get_base_timecode(): before the try statement
D55 ==
    /\ pc = "D55"
    /\ \/ /\ pc' = "D62"
          /\ UNCHANGED <<exc, vidx>>
       \/ /\ exc' = "setup_failed"
          /\ MainDetectRaised
    /\ UNCHANGED <<caller, ffmpeg_available, video_pths, video_pth, opened,
                   released, detected_scenes, scene_list, suppress_output, i,
                   calls, ret_vals, running, dirs, files, files0>>

\* lines 61-63: try: set_downscale_factor(); start()
D62 ==
    /\ pc = "D62"
    /\ \/ /\ pc' = "D65"
          /\ UNCHANGED exc
       \/ /\ exc' = "decode_failed"
          /\ pc' = "D77"
    /\ UNCHANGED <<caller, ffmpeg_available, video_pths, vidx, video_pth,
                   opened, released, detected_scenes, scene_list,
                   suppress_output, i, calls, ret_vals, running, dirs, files,
                   files0>>

\* lines 65-75: scene_manager.detect_scenes(...); get_scene_list(base_timecode)
D65 ==
    /\ pc = "D65"
    /\ \/ /\ \E sl \in SceneLists : scene_list' = sl
          /\ UNCHANGED exc
       \/ /\ exc' = "decode_failed"
          /\ UNCHANGED scene_list
    /\ pc' = "D77"
    /\ UNCHANGED <<caller, ffmpeg_available, video_pths, vidx, video_pth,
                   opened, released, detected_scenes, suppress_output, i,
                   calls, ret_vals, running, dirs, files, files0>>

\* lines 76-77: finally: video_manager.release(); then the return or the re-raise
D77 ==
    /\ pc = "D77"
    /\ released' = Append(released, video_pth)
    /\ IF exc = "none"
       THEN /\ detected_scenes' = scene_list
            /\ pc' = "M151"
            /\ UNCHANGED vidx
       ELSE /\ MainDetectRaised
            /\ UNCHANGED detected_scenes
    /\ UNCHANGED <<caller, exc, ffmpeg_available, video_pths, video_pth,
                   opened, scene_list, suppress_output, i, calls, ret_vals,
                   running, dirs, files, files0>>

----------------------------------------------------------------------------
(* extract_split_audio *)

\* A direct call extract_split_audio(video_pth, output_dir, sl, so)
CallExtract ==
    /\ pc \in {"start", "returned", "raised"}
    /\ caller \in {"none", "api"}
    /\ \E sl \in SceneLists, so \in BOOLEAN :
          /\ scene_list' = sl
          /\ suppress_output' = so
    /\ caller' = "api"
    /\ exc' = "none"
    /\ i' = 0
    /\ calls' = <<>>
    /\ ret_vals' = <<>>
    /\ files0' = files
    /\ pc' = "E90"
    /\ UNCHANGED <<ffmpeg_available, video_pths, vidx, video_pth, opened,
                   released, detected_scenes, running, dirs, files>>

E90_MkdirFirst ==
    /\ pc = "E90"
    /\ dirs' = dirs \cup {video_pth}
    /\ IF ~ffmpeg_available
       THEN /\ exc' = "RuntimeError"
            /\ pc' = "raised"
       ELSE /\ pc' = "E96"
            /\ UNCHANGED exc
    /\ UNCHANGED <<caller, ffmpeg_available, video_pths, vidx, video_pth,
                   opened, released, detected_scenes, scene_list,
                   suppress_output, i, calls, ret_vals, running, files,
                   files0>>

E90_NoCheck ==
    /\ pc = "E90"
    /\ pc' = "E93"
    /\ UNCHANGED <<caller, exc, ffmpeg_available, video_pths, vidx, video_pth,
                   opened, released, detected_scenes, scene_list,
                   suppress_output, i, calls, ret_vals, running, dirs, files,
                   files0>>

\* lines 90-91: if video_splitter.is_ffmpeg_available() is False: raise RuntimeError
E90 ==
    /\ pc = "E90"
    /\ IF ~ffmpeg_available
       THEN /\ exc' = "RuntimeError"
            /\ pc' = "raised"
       ELSE /\ pc' = "E93"
            /\ UNCHANGED exc
    /\ UNCHANGED <<caller, ffmpeg_available, video_pths, vidx, video_pth,
                   opened, released, detected_scenes, scene_list,
                   suppress_output, i, calls, ret_vals, running, dirs, files,
                   files0>>

E93_CleanDir ==
    /\ pc = "E93"
    /\ dirs' = dirs \cup {video_pth}
    /\ files' = [p \in Paths |-> IF p[1] = video_pth THEN NoFile ELSE files[p]]
    /\ pc' = "E96"
    /\ UNCHANGED <<caller, exc, ffmpeg_available, video_pths, vidx, video_pth,
                   opened, released, detected_scenes, scene_list,
                   suppress_output, i, calls, ret_vals, running, files0>>

\* lines 93-94: audio_output_dir.mkdir(parents=True, exist_ok=True)
E93 ==
    /\ pc = "E93"
    /\ dirs' = dirs \cup {video_pth}
    /\ pc' = "E96"
    /\ UNCHANGED <<caller, exc, ffmpeg_available, video_pths, vidx, video_pth,
                   opened, released, detected_scenes, scene_list,
                   suppress_output, i, calls, ret_vals, running, files,
                   files0>>

\* The return of extract_split_audio: to main's loop (line 153), or to the caller
ExtractReturn ==
    /\ pc' = IF caller = "main" THEN "M143" ELSE "returned"
    /\ vidx' = IF caller = "main" THEN vidx + 1 ELSE vidx

\* lines 96-110: the next scene: its call_list is built and ffmpeg is started
\* (subprocess.call, first half); or the loop is over and the function returns
E96 ==
    /\ pc = "E96"
    /\ IF i < Len(scene_list)
       THEN /\ calls' = Append(calls, CallList(i, suppress_output, scene_list, video_pth))
            /\ running' = running \cup {i + 1}
            /\ pc' = "E110"
            /\ UNCHANGED vidx
       ELSE /\ ExtractReturn
            /\ UNCHANGED <<calls, running>>
    /\ UNCHANGED <<caller, exc, ffmpeg_available, video_pths, video_pth,
                   opened, released, detected_scenes, scene_list,
                   suppress_output, i, ret_vals, dirs, files, files0>>

AfterCallBreak(ret_val) ==
    IF ret_val # 0
    THEN ExtractReturn
    ELSE /\ pc' = "E96"
         /\ vidx' = vidx

\* lines 112-115: the log line; "if ret_val != 0: break" is commented out
AfterCall(ret_val) ==
    /\ pc' = "E96"
    /\ vidx' = vidx

\* What ffmpeg -y leaves at its output path: the slice on exit code 0; on a
\* failure the path is untouched or holds an unfinished file.
FfmpegOutput(c, ret_val) ==
    IF ret_val = 0 THEN {Slice(c)} ELSE {files[c.out], Partial}

\* line 110: ret_val = subprocess.call(call_list) (second half: the wait), and
\* the end of the loop body
E110 ==
    /\ pc = "E110"
    /\ \E ret_val \in ExitCodes :
          /\ ret_vals' = Append(ret_vals, ret_val)
          /\ \E content \in FfmpegOutput(calls[Len(calls)], ret_val) :
                files' = [files EXCEPT ![calls[Len(calls)].out] = content]
          /\ AfterCall(ret_val)
    /\ running' = running \ {i + 1}
    /\ i' = i + 1
    /\ UNCHANGED <<caller, exc, ffmpeg_available, video_pths, video_pth,
                   opened, released, detected_scenes, scene_list,
                   suppress_output, calls, dirs, files0>>

----------------------------------------------------------------------------
Next ==
    \/ Main141
    \/ Main143
    \/ Main151
    \/ Main155
    \/ D54
    \/ D55
    \/ D62
    \/ D65
    \/ D77
    \/ CallExtract
    \/ E90
    \/ E93
    \/ E96
    \/ E110

Spec == Init /\ [][Next]_vars

----------------------------------------------------------------------------
(* Properties *)

\* extract_split_audio has returned normally and its locals are still in place
ExtractReturned ==
    \/ pc = "returned"
    \/ caller = "main" /\ pc \in {"M143", "M155", "done"} /\ vidx > 0

AllSucceeded == \A k \in 1..Len(ret_vals) : ret_vals[k] = 0

\* C1: in suppressed mode, with ffmpeg available, extract_split_audio never
\* raises and never leaves its loop early: whatever the exit codes, every
\* completed call is followed by the next scene's, and at the return all
\* Len(scene_list) scenes have had their ffmpeg call.
C1_SuppressedRunsAllScenes ==
    (suppress_output /\ ffmpeg_available) =>
        /\ (pc = "raised" => exc \in DetectErrors)
        /\ (pc \in {"E96", "E110"} =>
                /\ Len(ret_vals) = i
                /\ Len(calls) = i + Cardinality(running)
                /\ i <= Len(scene_list))
        /\ (ExtractReturned =>
                /\ Len(calls) = Len(scene_list)
                /\ Len(ret_vals) = Len(scene_list))

C1_Witness ==
    /\ pc = "returned"
    /\ suppress_output
    /\ Len(scene_list) = 2
    /\ ret_vals[1] # 0
    /\ Len(calls) = 2
    /\ calls[2].v = "quiet"

\* C2 (as claimed): in verbose mode, once the call for scene 1 has returned a
\* nonzero exit code, no call for a later scene is issued.
C2_VerboseStopsAfterFirstFailure ==
    (~suppress_output /\ Len(ret_vals) >= 1 /\ ret_vals[1] # 0) =>
        Len(calls) <= 1

\* C3: without ffmpeg, extract_split_audio raises RuntimeError before any side
\* effect: no output directory exists, no ffmpeg call is issued, no file is
\* written, and the function never gets past its check, for either mode.
C3_NoToolNoSideEffect ==
    ~ffmpeg_available =>
        /\ dirs = {}
        /\ calls = <<>>
        /\ running = {}
        /\ \A p \in Paths : files[p] = NoFile
        /\ pc \notin {"E93", "E96", "E110", "returned"}
        /\ (caller = "api" /\ pc = "raised" => exc = "RuntimeError")

C3_Witness ==
    /\ ~ffmpeg_available
    /\ caller = "api"
    /\ pc = "raised"
    /\ exc = "RuntimeError"
    /\ ~suppress_output
    /\ Len(scene_list) = 2

C8_CallsFollowSceneList ==
    (pc \in {"E96", "E110"} \/ ExtractReturned) =>
        /\ Len(calls) <= Len(scene_list)
        /\ \A k \in 1..Len(calls) :
              /\ calls[k].ss = GetTimecode(scene_list[k][1])
              /\ calls[k].t = GetTimecode(scene_list[k][2] - scene_list[k][1])
              /\ calls[k].input = video_pth
              /\ calls[k].out = <<video_pth, video_pth, k>>
        /\ \A j, k \in 1..Len(calls) : j # k => calls[j].out # calls[k].out
        /\ Cardinality(running) <= 1
        /\ running \subseteq {Len(calls)}
        /\ Len(ret_vals) = Len(calls) - Cardinality(running)
        /\ (ExtractReturned => Len(calls) = Len(scene_list) /\ running = {})

C8_Witness ==
    /\ pc = "returned"
    /\ scene_list = <<<<0, 1>>, <<1, 2>>>>
    /\ Len(calls) = 2
    /\ calls[2].ss = GetTimecode(1)
    /\ calls[2].t = GetTimecode(1)
    /\ calls[2].out = OutPath(video_pth, 2)

\* C9 (as claimed): whenever detect_scenes is not running, every video it
\* opened has been released exactly once.
C9_ReleasedOnEveryExit ==
    pc \notin DetectPcs => released = opened

\* C10: extract_split_audio never removes a file that existed when it was
\* entered and never fails on an existing output directory; after a run whose
\* ffmpeg calls all succeeded, file k of the video holds the slice of scene k
\* for k = 1..Len(scene_list), and every other file is as it was at entry.
C10_RerunKeepsStaleFiles ==
    /\ \A p \in Paths : files0[p] # NoFile => files[p] # NoFile
    /\ (caller = "api" /\ ffmpeg_available => pc # "raised")
    /\ (ExtractReturned /\ AllSucceeded) =>
          /\ \A k \in 1..Len(scene_list) :
                files[OutPath(video_pth, k)] =
                    <<"audio", GetTimecode(scene_list[k][1]),
                      GetTimecode(scene_list[k][2] - scene_list[k][1])>>
          /\ \A p \in Paths :
                (p[1] # video_pth \/ p[3] > Len(scene_list)) => files[p] = files0[p]

C10_Witness ==
    /\ pc = "returned"
    /\ AllSucceeded
    /\ Len(scene_list) = 1
    /\ video_pth \in dirs
    /\ files0[OutPath(video_pth, 1)] = <<"audio", GetTimecode(0), GetTimecode(1)>>
    /\ files0[OutPath(video_pth, 2)] = <<"audio", GetTimecode(1), GetTimecode(1)>>
    /\ files[OutPath(video_pth, 1)] = <<"audio", GetTimecode(0), GetTimecode(2)>>
    /\ files[OutPath(video_pth, 2)] = files0[OutPath(video_pth, 2)]

====
